---------------------------- MODULE Spec2Model ----------------------------
(***************************************************************************)
(* THREE.DynamicParticlePool (src/dynamic-particle-pool.js).               *)
(*                                                                         *)
(* A pool is a list of fixed-size geometries ("pools" in the source,       *)
(* "segments" in the specification).  A particle is the pair               *)
(* <<mesh, k>>: the k-th vertex created by the createGeometry call that    *)
(* created mesh number `mesh`.  The free method of a particle is the       *)
(* closure freePoolParticle of that createGeometry call; it pushes its     *)
(* `this` onto the closure's own `available` array.                        *)
(*                                                                         *)
(* Numbers: maximumParticles becomes fractional under increasePool and     *)
(* decreasePool, so it is kept as an exact fraction [num, den]; the ratios *)
(* drawn are dyadic, for which the source's double arithmetic is exact.    *)
(***************************************************************************)
EXTENDS Integers, Sequences, FiniteSets, TLC

VARIABLES
  opts,         \* the options object after defaulting (lines 30-35)
  pools,        \* var pools (line 53): sequence of [mesh, available, size]
  items,        \* object3d.items: the meshes attached to the collaborator
  nextMesh,     \* identity of the next mesh createGeometry will create
  lastCleanup,  \* var lastCleanup (line 54)
  now,          \* the clock Date.now() reads
  inUse,        \* caller: particles handed out and not freed since
  returned,     \* caller: every particle getParticle has ever returned
  misuse,       \* caller: the kinds of invalid free performed so far
  last          \* the most recent call on the pool and its result

vars == <<opts, pools, items, nextMesh, lastCleanup, now, inUse, returned, misuse, last>>

(***************************************************************************)
(* Bounds of the model.                                                    *)
(***************************************************************************)
MaxMeshes == 3          \* createGeometry calls in one run
MaxTime == 2            \* the clock stops advancing here
MaxQueue == 3           \* longest available array a repeated free may build

(***************************************************************************)
(* Program constants.                                                      *)
(***************************************************************************)
DefaultMaximumParticles == 100000

NULL == <<>>            \* null / undefined

(***************************************************************************)
(* Exact fractions for maximumParticles and the adjustment ratios.         *)
(***************************************************************************)
RECURSIVE Gcd(_, _)
Gcd(a, b) == IF b = 0 THEN a ELSE Gcd(b, a % b)

Frac(n, d) == LET g == Gcd(n, d) IN [num |-> n \div g, den |-> d \div g]
Whole(n) == [num |-> n, den |-> 1]
FMul(x, y) == Frac(x.num * y.num, x.den * y.den)
FDiv(x, y) == Frac(x.num * y.den, x.den * y.num)
FLess(x, y) == x.num * y.den < y.num * x.den
FMin(x, y) == IF FLess(y, x) THEN y ELSE x
FMax(x, y) == IF FLess(x, y) THEN y ELSE x
Infinity == [num |-> 1, den |-> 0]   \* greater than every number

(***************************************************************************)
(* Lines 30-35: option defaulting.  `x || d` replaces a falsy x (0) by d;  *)
(* minimumParticles is kept whenever it is a number.                       *)
(***************************************************************************)
Defaults(o) ==
  [maximumParticles |-> IF o.maximumParticles = 0
                        THEN Whole(DefaultMaximumParticles)
                        ELSE Whole(o.maximumParticles),
   minimumParticles |-> o.minimumParticles,
   particlesPerGeometry |-> o.particlesPerGeometry,
   cleanupInterval |-> o.cleanupInterval,
   defaultAdjustmentRatio |-> o.defaultAdjustmentRatio]

(***************************************************************************)
(* Lines 56-91: createGeometry.  The while (i--) loop pushes               *)
(* particlesPerGeometry particles onto `available` in creation order;      *)
(* object3d.add(mesh) attaches the mesh; the new pool is pushed last, with *)
(* size: available.length.  h is the heap [pools, items, nextMesh].        *)
(***************************************************************************)
NewAvailable(mesh, n) == [k \in 1..n |-> <<mesh, k>>]

createGeometry(h, o) ==
  LET available == NewAvailable(h.nextMesh, o.particlesPerGeometry)
  IN [pools |-> Append(h.pools, [mesh |-> h.nextMesh,
                                 available |-> available,
                                 size |-> Len(available)]),
      items |-> Append(h.items, h.nextMesh),
      nextMesh |-> h.nextMesh + 1]

(***************************************************************************)
(* Lines 96-104: pools.some(...).  Scans from pool i on with the running   *)
(* count; stops at the first pool with a non-empty available array (index  *)
(* of that pool) or as soon as count > maximumParticles (index 0).         *)
(***************************************************************************)
RECURSIVE someStopsAtLimit(_, _, _, _)
someStopsAtLimit(ps, i, count, max) ==
  IF i > Len(ps) THEN [index |-> 0, count |-> count]
  ELSE IF Len(ps[i].available) > 0 THEN [index |-> i, count |-> count]
  ELSE IF ~FLess(Whole(count + ps[i].size), max)
       THEN [index |-> 0, count |-> count + ps[i].size]
       ELSE someStopsAtLimit(ps, i + 1, count + ps[i].size, max)

RECURSIVE someNoLimit(_, _, _, _)
someNoLimit(ps, i, count, max) ==
  IF i > Len(ps) THEN [index |-> 0, count |-> count]
  ELSE IF Len(ps[i].available) > 0 THEN [index |-> i, count |-> count]
  ELSE someNoLimit(ps, i + 1, count + ps[i].size, max)

RECURSIVE some(_, _, _, _)
some(ps, i, count, max) ==
  IF i > Len(ps) THEN [index |-> 0, count |-> count]
  ELSE IF Len(ps[i].available) > 0 THEN [index |-> i, count |-> count]
  ELSE IF FLess(max, Whole(count + ps[i].size))
       THEN [index |-> 0, count |-> count + ps[i].size]
       ELSE some(ps, i + 1, count + ps[i].size, max)

(***************************************************************************)
(* Lines 93-112: getOrCreateParticle.  `capped` reports that the model's   *)
(* bound on createGeometry calls was met; the action is then not taken.    *)
(***************************************************************************)
RECURSIVE getOrCreateParticlePop(_, _)
getOrCreateParticlePop(h, o) ==
  LET s == some(h.pools, 1, 0, o.maximumParticles)
      a == h.pools[s.index].available
  IN IF s.index # 0
     THEN [heap |-> [h EXCEPT !.pools[s.index].available = SubSeq(a, 1, Len(a) - 1)],
           particle |-> a[Len(a)],
           capped |-> FALSE]
     ELSE IF FLess(Whole(s.count), o.maximumParticles)
          THEN IF h.nextMesh > MaxMeshes
               THEN [heap |-> h, particle |-> NULL, capped |-> TRUE]
               ELSE getOrCreateParticlePop(createGeometry(h, o), o)
          ELSE [heap |-> h, particle |-> NULL, capped |-> FALSE]

RECURSIVE getOrCreateParticlePeek(_, _)
getOrCreateParticlePeek(h, o) ==
  LET s == some(h.pools, 1, 0, o.maximumParticles)
  IN IF s.index # 0
     THEN [heap |-> h,
           particle |-> Head(h.pools[s.index].available),
           capped |-> FALSE]
     ELSE IF FLess(Whole(s.count), o.maximumParticles)
          THEN IF h.nextMesh > MaxMeshes
               THEN [heap |-> h, particle |-> NULL, capped |-> TRUE]
               ELSE getOrCreateParticlePeek(createGeometry(h, o), o)
          ELSE [heap |-> h, particle |-> NULL, capped |-> FALSE]

RECURSIVE getOrCreateParticleAtLimit(_, _)
getOrCreateParticleAtLimit(h, o) ==
  LET s == some(h.pools, 1, 0, o.maximumParticles)
  IN IF s.index # 0
     THEN [heap |-> [h EXCEPT !.pools[s.index].available = Tail(@)],
           particle |-> Head(h.pools[s.index].available),
           capped |-> FALSE]
     ELSE IF ~FLess(o.maximumParticles, Whole(s.count))
          THEN IF h.nextMesh > MaxMeshes
               THEN [heap |-> h, particle |-> NULL, capped |-> TRUE]
               ELSE getOrCreateParticleAtLimit(createGeometry(h, o), o)
          ELSE [heap |-> h, particle |-> NULL, capped |-> FALSE]

RECURSIVE getOrCreateParticle(_, _)
getOrCreateParticle(h, o) ==
  LET s == some(h.pools, 1, 0, o.maximumParticles)
  IN IF s.index # 0
     THEN [heap |-> [h EXCEPT !.pools[s.index].available = Tail(@)],
           particle |-> Head(h.pools[s.index].available),
           capped |-> FALSE]
     ELSE IF FLess(Whole(s.count), o.maximumParticles)
          THEN IF h.nextMesh > MaxMeshes
               THEN [heap |-> h, particle |-> NULL, capped |-> TRUE]
               ELSE getOrCreateParticle(createGeometry(h, o), o)
          ELSE [heap |-> h, particle |-> NULL, capped |-> FALSE]

(***************************************************************************)
(* Lines 199-203: the constructor's initiate loop;                         *)
(* i = Math.ceil(minimumParticles / particlesPerGeometry) || 0.            *)
(***************************************************************************)
CeilAsFloor(a, b) == a \div b

Ceil(a, b) == (a + b - 1) \div b

RECURSIVE initiate(_, _, _)
initiate(h, o, i) == IF i = 0 THEN h ELSE initiate(createGeometry(h, o), o, i - 1)

EmptyHeap == [pools |-> <<>>, items |-> <<>>, nextMesh |-> 1]

Constructed(o) == initiate(EmptyHeap, o, Ceil(o.minimumParticles, o.particlesPerGeometry))

Heap == [pools |-> pools, items |-> items, nextMesh |-> nextMesh]

(***************************************************************************)
(* Lines 62-68: freePoolParticle, the closure of the createGeometry call   *)
(* that created mesh `owner`, invoked with `this`.  It throws when `this`  *)
(* is missing; every particle carries a free function, so any particle     *)
(* passes the test.  Otherwise `this` is pushed onto the closure's own     *)
(* `available` array.  After cleanUp removed the pool that array is        *)
(* emptied and reachable from nothing the pool reads, so a later push onto *)
(* it leaves the pools as they are.                                        *)
(***************************************************************************)
Owner(particle) == particle[1]

PoolIndex(ps, mesh) ==
  IF \E i \in 1..Len(ps) : ps[i].mesh = mesh
  THEN CHOOSE i \in 1..Len(ps) : ps[i].mesh = mesh
  ELSE 0

freePoolParticleUnshift(ps, owner, this) ==
  LET i == PoolIndex(ps, owner)
  IN IF this = NULL
     THEN [pools |-> ps, threw |-> TRUE]
     ELSE IF i = 0
          THEN [pools |-> ps, threw |-> FALSE]
          ELSE [pools |-> [ps EXCEPT ![i].available = <<this>> \o @],
                threw |-> FALSE]

freePoolParticlePushesTwice(ps, owner, this) ==
  LET i == PoolIndex(ps, owner)
  IN IF this = NULL
     THEN [pools |-> ps, threw |-> TRUE]
     ELSE IF i = 0
          THEN [pools |-> ps, threw |-> FALSE]
          ELSE [pools |-> [ps EXCEPT ![i].available = Append(Append(@, this), this)],
                threw |-> FALSE]

freePoolParticle(ps, owner, this) ==
  LET i == PoolIndex(ps, owner)
  IN IF this = NULL
     THEN [pools |-> ps, threw |-> TRUE]
     ELSE IF i = 0
          THEN [pools |-> ps, threw |-> FALSE]
          ELSE [pools |-> [ps EXCEPT ![i].available = Append(@, this)],
                threw |-> FALSE]

(***************************************************************************)
(* src/unnamed/part_000 lines 16-21: object3d.remove(item).                *)
(***************************************************************************)
remove(its, item) ==
  IF \E j \in 1..Len(its) : its[j] = item
  THEN LET index == CHOOSE j \in 1..Len(its) :
                      its[j] = item /\ \A k \in 1..(j - 1) : its[k] # item
       IN SubSeq(its, 1, index - 1) \o SubSeq(its, index + 1, Len(its))
  ELSE its

RECURSIVE removeAll(_, _)
removeAll(its, removedPools) ==
  IF removedPools = <<>> THEN its
  ELSE removeAll(remove(its, Head(removedPools).mesh), Tail(removedPools))

(***************************************************************************)
(* Lines 115-135: cleanUp.  The forEach leaves firstIdlePoolIndex one past *)
(* the last pool whose available.length differs from its size (0-based);   *)
(* splice(firstIdlePoolIndex + 1, idlePools - 1) removes what follows the  *)
(* first idle pool, and each removed mesh is detached from object3d.       *)
(***************************************************************************)
RECURSIVE firstIdlePoolIndexStops(_, _, _)
firstIdlePoolIndexStops(ps, i, acc) ==
  IF i > Len(ps) THEN acc
  ELSE IF Len(ps[i].available) # ps[i].size
       THEN firstIdlePoolIndexStops(ps, i + 1, i)
       ELSE acc

RECURSIVE firstIdlePoolIndexOfFirstIdle(_, _, _)
firstIdlePoolIndexOfFirstIdle(ps, i, acc) ==
  IF i > Len(ps) THEN Len(ps)
  ELSE IF Len(ps[i].available) = ps[i].size
       THEN i - 1
       ELSE firstIdlePoolIndexOfFirstIdle(ps, i + 1, acc)

RECURSIVE firstIdlePoolIndex(_, _, _)
firstIdlePoolIndex(ps, i, acc) ==
  IF i > Len(ps) THEN acc
  ELSE firstIdlePoolIndex(ps, i + 1,
         IF Len(ps[i].available) # ps[i].size THEN i ELSE acc)

cleanUpNoSpare(h) ==
  LET first == firstIdlePoolIndex(h.pools, 1, 0)
      idlePools == Len(h.pools) - first
      removedPools == SubSeq(h.pools, first + 1, Len(h.pools))
  IN IF idlePools > 1
     THEN [pools |-> SubSeq(h.pools, 1, first),
           items |-> removeAll(h.items, removedPools),
           nextMesh |-> h.nextMesh]
     ELSE h

cleanUpKeepsMeshes(h) ==
  LET first == firstIdlePoolIndex(h.pools, 1, 0)
      idlePools == Len(h.pools) - first
  IN IF idlePools > 1
     THEN [pools |-> SubSeq(h.pools, 1, first + 1),
           items |-> h.items,
           nextMesh |-> h.nextMesh]
     ELSE h

cleanUpKeepsTwo(h) ==
  LET first == firstIdlePoolIndex(h.pools, 1, 0)
      idlePools == Len(h.pools) - first
      removedPools == SubSeq(h.pools, first + 3, Len(h.pools))
  IN IF idlePools > 2
     THEN [pools |-> SubSeq(h.pools, 1, first + 2),
           items |-> removeAll(h.items, removedPools),
           nextMesh |-> h.nextMesh]
     ELSE h

cleanUp(h) ==
  LET first == firstIdlePoolIndex(h.pools, 1, 0)
      idlePools == Len(h.pools) - first
      removedPools == SubSeq(h.pools, first + 2, Len(h.pools))
  IN IF idlePools > 1
     THEN [pools |-> SubSeq(h.pools, 1, first + 1),
           items |-> removeAll(h.items, removedPools),
           nextMesh |-> h.nextMesh]
     ELSE h

(***************************************************************************)
(* Line 172: Date.now() - lastCleanup > opts.cleanupInterval.              *)
(***************************************************************************)
IsTimeToCleanupAtInterval(t, lastT, interval) == ~FLess(Whole(t - lastT), interval)

IsTimeToCleanup(t, lastT, interval) == FLess(interval, Whole(t - lastT))

(***************************************************************************)
(* Lines 141-150 and 152-164: increasePool and decreasePool.  A ratio or   *)
(* absoluteCount of 0 stands for a falsy or missing argument.              *)
(***************************************************************************)
Zero == Whole(0)

increasePool(o, ps, ratio, absoluteCount) ==
  IF absoluteCount # 0
  THEN Whole(absoluteCount)
  ELSE LET r == IF ratio = Zero THEN o.defaultAdjustmentRatio ELSE ratio
           maxValue == (Len(ps) + 1) * o.particlesPerGeometry
       IN FMin(FMul(o.maximumParticles, r), Whole(maxValue))

decreasePoolNoMinimum(o, ratio, absoluteCount) ==
  IF absoluteCount # 0
  THEN Whole(absoluteCount)
  ELSE LET r == IF ratio = Zero THEN o.defaultAdjustmentRatio ELSE ratio
       IN FMax(FDiv(o.maximumParticles, r), Whole(o.particlesPerGeometry))

decreasePool(o, ratio, absoluteCount) ==
  IF absoluteCount # 0
  THEN Whole(absoluteCount)
  ELSE LET r == IF ratio = Zero THEN o.defaultAdjustmentRatio ELSE ratio
       IN FMax(FMax(FDiv(o.maximumParticles, r), Whole(o.particlesPerGeometry)),
               Whole(o.minimumParticles))

(***************************************************************************)
(* Lines 178-197: getStats.                                                *)
(***************************************************************************)
RECURSIVE sumAvailableCountsPools(_)
sumAvailableCountsPools(ps) ==
  IF ps = <<>> THEN 0
  ELSE (IF Head(ps).available # <<>> THEN 1 ELSE 0) + sumAvailableCountsPools(Tail(ps))

RECURSIVE sumAvailable(_)
sumAvailable(ps) ==
  IF ps = <<>> THEN 0 ELSE Len(Head(ps).available) + sumAvailable(Tail(ps))

RECURSIVE sumSize(_)
sumSize(ps) == IF ps = <<>> THEN 0 ELSE Head(ps).size + sumSize(Tail(ps))

getStats(o, ps) ==
  [poolsCount |-> Len(ps),
   particlesPerPool |-> o.particlesPerGeometry,
   total |-> sumSize(ps),
   available |-> sumAvailable(ps),
   pools |-> [i \in 1..Len(ps) |-> [size |-> ps[i].size,
                                    available |-> Len(ps[i].available)]],
   used |-> sumSize(ps) - sumAvailable(ps)]

(***************************************************************************)
(* The record kept in `last` for every call: the call, the `this` and the  *)
(* closure (mesh) of a free, the particle getParticle returned, whether    *)
(* the call threw, whether update ran cleanUp and how many pools that      *)
(* removed, what getStats returned, whether getParticle returned the       *)
(* particle that the call just before it had freed, what update's first    *)
(* Date.now() read, and whether increasePool or decreasePool was given a   *)
(* truthy absoluteCount.                                                   *)
(***************************************************************************)
NoStats == getStats([particlesPerGeometry |-> 0], <<>>)

Call(op) ==
  [op |-> op, this |-> NULL, via |-> 0, ret |-> NULL, threw |-> FALSE,
   cleaned |-> FALSE, removed |-> 0, stats |-> NoStats, reissued |-> FALSE,
   at |-> 0, absolute |-> FALSE]

(***************************************************************************)
(* The options a pool is constructed with, and the arguments of            *)
(* increasePool and decreasePool.                                          *)
(***************************************************************************)
Ratios == {Frac(2, 1)}
MaximumValues == 1..4
LargestMaximum == CHOOSE m \in MaximumValues : \A k \in MaximumValues : k <= m

Options ==
  [maximumParticles : MaximumValues,
   minimumParticles : {0, 2, 3},
   particlesPerGeometry : {1, 2},
   cleanupInterval : {Frac(1, 2), Infinity},
   defaultAdjustmentRatio : {Frac(4, 1)}]

(***************************************************************************)
(* Lines 29-54 and 199-213: the constructor.                               *)
(***************************************************************************)
InitWith(options) ==
  \E o \in options :
    /\ Ceil(o.minimumParticles, o.particlesPerGeometry) <= MaxMeshes
    /\ opts = Defaults(o)
    /\ LET h == Constructed(Defaults(o))
       IN /\ pools = h.pools
          /\ items = h.items
          /\ nextMesh = h.nextMesh
    /\ now = 0
    /\ lastCleanup = 0
    /\ inUse = {}
    /\ returned = {}
    /\ misuse = {}
    /\ last = Call("constructor")

Init == InitWith(Options)

(***************************************************************************)
(* Lines 137-139: getParticle().                                           *)
(***************************************************************************)
GetParticle ==
  LET r == getOrCreateParticle(Heap, opts)
  IN /\ ~r.capped
     /\ pools' = r.heap.pools
     /\ items' = r.heap.items
     /\ nextMesh' = r.heap.nextMesh
     /\ inUse' = IF r.particle = NULL THEN inUse ELSE inUse \cup {r.particle}
     /\ returned' = IF r.particle = NULL THEN returned ELSE returned \cup {r.particle}
     /\ last' = [Call("getParticle") EXCEPT
                   !.ret = r.particle,
                   !.reissued = r.particle # NULL /\ r.particle = last.this]
     /\ UNCHANGED <<opts, lastCleanup, now, misuse>>

(***************************************************************************)
(* A call of a particle's free function: the closure of mesh `via`,        *)
(* invoked with `this`.                                                    *)
(***************************************************************************)
FreeCall(op, via, this, kind) ==
  LET r == freePoolParticle(pools, via, this)
      i == PoolIndex(pools, via)
  IN /\ (i # 0 /\ kind # {}) => Len(pools[i].available) < MaxQueue
     /\ kind # {} => misuse = {}
     /\ pools' = r.pools
     /\ inUse' = IF r.threw THEN inUse ELSE inUse \ {this}
     /\ misuse' = misuse \cup kind
     /\ last' = [Call(op) EXCEPT !.this = this, !.via = via, !.threw = r.threw]
     /\ UNCHANGED <<opts, items, nextMesh, lastCleanup, now, returned>>

(***************************************************************************)
(* particle.free(): the caller returns a particle it holds.                *)
(***************************************************************************)
Free == \E p \in inUse : FreeCall("free", Owner(p), p, {})

(***************************************************************************)
(* Invalid uses of free: on a particle already freed; through the free of  *)
(* a particle of another geometry (q.free.call(p)); with no context        *)
(* (var f = q.free; f()).                                                  *)
(***************************************************************************)
FreeAgain == \E p \in returned \ inUse : FreeCall("free", Owner(p), p, {"double"})

FreeVia ==
  \E q \in returned, p \in returned :
    /\ Owner(q) # Owner(p)
    /\ FreeCall("freeVia", Owner(q), p, {"context"})

FreeDetached == \E q \in returned : FreeCall("freeVia", Owner(q), NULL, {"context"})

(***************************************************************************)
(* Lines 166-176: update().  Date.now() never runs backwards: the first    *)
(* read yields some t1 >= now, the second read (line 174) some t2 >= t1.   *)
(***************************************************************************)
Update ==
  \E t1 \in now..MaxTime :
    /\ IF IsTimeToCleanup(t1, lastCleanup, opts.cleanupInterval)
       THEN \E t2 \in {t \in {t1, t1 + 1} : t <= MaxTime} :
              LET h == cleanUp(Heap)
              IN /\ pools' = h.pools
                 /\ items' = h.items
                 /\ lastCleanup' = t2
                 /\ now' = t2
                 /\ last' = [Call("update") EXCEPT
                               !.cleaned = TRUE,
                               !.removed = Len(pools) - Len(h.pools),
                               !.at = t1]
       ELSE /\ now' = t1
            /\ UNCHANGED <<pools, items, lastCleanup>>
            /\ last' = [Call("update") EXCEPT !.at = t1]
    /\ UNCHANGED <<opts, nextMesh, inUse, returned, misuse>>

(***************************************************************************)
(* increasePool(ratio, absoluteCount) and decreasePool(ratio,              *)
(* absoluteCount).  The model keeps maximumParticles within the range of   *)
(* the options it draws.                                                   *)
(***************************************************************************)
Adjust(op, max, absoluteCount) ==
  /\ ~FLess(Whole(LargestMaximum), max)
  /\ opts' = [opts EXCEPT !.maximumParticles = max]
  /\ last' = [Call(op) EXCEPT !.absolute = absoluteCount # 0]
  /\ UNCHANGED <<pools, items, nextMesh, lastCleanup, now, inUse, returned, misuse>>

IncreasePool ==
  \/ \E ratio \in Ratios \cup {Zero} :
       Adjust("increasePool", increasePool(opts, pools, ratio, 0), 0)
  \/ \E absoluteCount \in MaximumValues :
       Adjust("increasePool", increasePool(opts, pools, Zero, absoluteCount),
              absoluteCount)

DecreasePool ==
  \/ \E ratio \in Ratios \cup {Zero} :
       Adjust("decreasePool", decreasePool(opts, ratio, 0), 0)
  \/ \E absoluteCount \in MaximumValues :
       Adjust("decreasePool", decreasePool(opts, Zero, absoluteCount),
              absoluteCount)

GetStats ==
  /\ last' = [Call("getStats") EXCEPT !.stats = getStats(opts, pools)]
  /\ UNCHANGED <<opts, pools, items, nextMesh, lastCleanup, now, inUse, returned, misuse>>

(***************************************************************************)
(* Spec: every call of the public interface, each free applied by the      *)
(* caller to a particle it holds.                                          *)
(***************************************************************************)
Next ==
  \/ GetParticle
  \/ Free
  \/ Update
  \/ IncreasePool
  \/ DecreasePool

Spec == Init /\ [][Next]_vars

(***************************************************************************)
(* SpecFixed: a pool on which increasePool and decreasePool are never      *)
(* called, constructed with options whose pre-allocated pools fit within   *)
(* maximumParticles (so minimumParticles <= maximumParticles).             *)
(***************************************************************************)
FixedOptions ==
  {o \in Options :
     Ceil(o.minimumParticles, o.particlesPerGeometry) * o.particlesPerGeometry
       <= o.maximumParticles}

NextFixed ==
  \/ GetParticle
  \/ Free
  \/ Update

SpecFixed == InitWith(FixedOptions) /\ [][NextFixed]_vars

(***************************************************************************)
(* SpecDouble: the caller may also free a particle getParticle returned    *)
(* earlier and that it has already freed.                                  *)
(***************************************************************************)
NextDouble ==
  \/ GetParticle
  \/ Free
  \/ FreeAgain
  \/ Update
  \/ IncreasePool
  \/ DecreasePool

DoubleOptions ==
  {o \in Options : o.minimumParticles # 2 /\ o.cleanupInterval # Infinity}

SpecDouble == InitWith(DoubleOptions) /\ [][NextDouble]_vars

(***************************************************************************)
(* SpecContext: the caller may also call a free function with another      *)
(* geometry's particle as context, or with none.                           *)
(***************************************************************************)
NextContext ==
  \/ GetParticle
  \/ Free
  \/ FreeVia
  \/ FreeDetached

SpecContext == InitWith(DoubleOptions) /\ [][NextContext]_vars

(***************************************************************************)
(* SpecStats: every call of the public interface, getStats included.       *)
(***************************************************************************)
NextStats ==
  \/ GetParticle
  \/ Free
  \/ Update
  \/ IncreasePool
  \/ DecreasePool
  \/ GetStats

SpecStats == Init /\ [][NextStats]_vars

(***************************************************************************)
(* SpecZero: a pool constructed with the option maximumParticles: 0, on    *)
(* which increasePool and decreasePool are never called.                   *)
(***************************************************************************)
ZeroOptions ==
  [maximumParticles : {0},
   minimumParticles : {0, 2, 3},
   particlesPerGeometry : {1, 2},
   cleanupInterval : {Frac(1, 2), Infinity},
   defaultAdjustmentRatio : {Frac(4, 1)}]

SpecZero == InitWith(ZeroOptions) /\ [][NextFixed]_vars

(***************************************************************************)
(* SpecLive: getParticle, free and update on pools with a finite           *)
(* cleanupInterval, update being called again and again and the clock      *)
(* advancing without bound.  The pool reads the clock only to store it     *)
(* (lines 54, 174) and to subtract lastCleanup from it (line 172), so the  *)
(* origin of the clock is arbitrary: Epoch moves it to lastCleanup, which  *)
(* no call can observe and which lets time go on while the times of the    *)
(* model stay within MaxTime.  UpdateLater is an update that reads a later *)
(* time than the last one read.                                            *)
(***************************************************************************)
Epoch ==
  /\ lastCleanup > 0
  /\ now' = now - lastCleanup
  /\ lastCleanup' = 0
  /\ UNCHANGED <<opts, pools, items, nextMesh, inUse, returned, misuse, last>>

UpdateLater == Update /\ now' > now

LiveOptions ==
  [maximumParticles : {2, 4},
   minimumParticles : {0, 3},
   particlesPerGeometry : {1, 2},
   cleanupInterval : {Frac(1, 2), Whole(1)},
   defaultAdjustmentRatio : {Frac(4, 1)}]

NextLive ==
  \/ GetParticle
  \/ Free
  \/ Update
  \/ Epoch

SpecLive ==
  /\ InitWith(LiveOptions)
  /\ [][NextLive]_vars
  /\ WF_vars(Update)
  /\ WF_vars(UpdateLater)
  /\ WF_vars(Epoch)

(***************************************************************************)
(* SpecInterval: every call of the public interface on pools constructed   *)
(* with a cleanupInterval of half a clock unit, of one clock unit, or      *)
(* Infinity.                                                               *)
(***************************************************************************)
IntervalOptions ==
  [maximumParticles : {4},
   minimumParticles : {0, 3},
   particlesPerGeometry : {1},
   cleanupInterval : {Frac(1, 2), Whole(1), Infinity},
   defaultAdjustmentRatio : {Frac(4, 1)}]

SpecInterval == InitWith(IntervalOptions) /\ [][Next]_vars

(***************************************************************************)
(* Vocabulary of the properties.                                           *)
(***************************************************************************)
Capacity == Len(pools) * opts.particlesPerGeometry

NonEmpty(ps) == {i \in 1..Len(ps) : ps[i].available # <<>>}

Lowest(ps) == CHOOSE i \in NonEmpty(ps) : \A j \in NonEmpty(ps) : i <= j

SlotsBefore(ps, i) == sumSize(SubSeq(ps, 1, i - 1))

WouldReturn == getOrCreateParticle(Heap, opts)

NewAvailableSet(mesh) ==
  {NewAvailable(mesh, opts.particlesPerGeometry)[k] : k \in 1..opts.particlesPerGeometry}

(***************************************************************************)
(* C10.  Minimum pre-allocation: right after construction the pool has     *)
(* exactly ceil(minimumParticles / particlesPerGeometry) pools, the least  *)
(* number of pools that holds minimumParticles, whatever maximumParticles  *)
(* is; each has size particlesPerGeometry and a full available array; with *)
(* minimumParticles = 0 there is no pool.                                  *)
(***************************************************************************)
C10_MinimumPreallocation ==
  last.op = "constructor" =>
    /\ Capacity >= opts.minimumParticles
    /\ Len(pools) > 0 => Capacity - opts.particlesPerGeometry < opts.minimumParticles
    /\ opts.minimumParticles = 0 => pools = <<>>
    /\ \A i \in 1..Len(pools) :
         /\ pools[i].size = opts.particlesPerGeometry
         /\ Len(pools[i].available) = pools[i].size

C10_Witness ==
  /\ last.op = "constructor"
  /\ opts.minimumParticles = 3
  /\ opts.particlesPerGeometry = 2
  /\ Len(pools) = 2
  /\ FLess(opts.maximumParticles, Whole(opts.minimumParticles))

(***************************************************************************)
(* C2.  maximumParticles is a hard ceiling: in a pool constructed with     *)
(* minimumParticles <= maximumParticles on which increasePool and          *)
(* decreasePool are never called, pools.length * particlesPerGeometry <=   *)
(* maximumParticles in every reachable state.                              *)
(***************************************************************************)
C2_HardCeiling ==
  ~FLess(opts.maximumParticles, Whole(opts.minimumParticles))
    => ~FLess(opts.maximumParticles, Whole(Capacity))

(***************************************************************************)
(* C3.  getParticle returns null only when the pool is exhausted: in every *)
(* reachable state, if some pool has a non-empty available array then      *)
(* getParticle returns a particle.                                         *)
(***************************************************************************)
C3_NullOnlyWhenExhausted ==
  NonEmpty(pools) # {} => WouldReturn.particle # NULL

(***************************************************************************)
(* C3 as amended: if some pool has a non-empty available array, then       *)
(* getParticle returns a particle exactly when the pools in front of the   *)
(* first such pool hold at most maximumParticles slots; when they hold     *)
(* more it returns null.                                                   *)
(***************************************************************************)
C3_NullOnlyPastCeiling ==
  NonEmpty(pools) # {} =>
    (WouldReturn.particle # NULL
       <=> ~FLess(opts.maximumParticles, Whole(SlotsBefore(pools, Lowest(pools)))))

C3_Witness ==
  /\ last.op = "getParticle"
  /\ last.ret # NULL
  /\ Len(pools) >= 2
  /\ pools[1].available = <<>>
  /\ Owner(last.ret) = pools[2].mesh
  /\ NonEmpty(pools) # {}
  /\ WouldReturn.particle # NULL

(***************************************************************************)
(* C4.  Lowest-segment preference: whenever getParticle returns a          *)
(* particle, it is the front element of the available array of the first   *)
(* pool whose available array was non-empty when the pools were scanned    *)
(* (the pool created by this call when none was), and every other          *)
(* available array is left as it was.                                      *)
(***************************************************************************)
C4_LowestSegmentPreference ==
  [][(last'.op = "getParticle" /\ last'.ret # NULL) =>
       IF NonEmpty(pools) # {}
       THEN LET i == Lowest(pools)
            IN /\ last'.ret = Head(pools[i].available)
               /\ pools' = [pools EXCEPT ![i].available = Tail(@)]
       ELSE /\ Len(pools') = Len(pools) + 1
            /\ SubSeq(pools', 1, Len(pools)) = pools
            /\ LET new == pools'[Len(pools')]
               IN /\ last'.ret = <<new.mesh, 1>>
                  /\ new.available =
                       Tail(NewAvailable(new.mesh, opts.particlesPerGeometry))
    ]_vars

C4_Witness ==
  /\ last.op = "getParticle"
  /\ last.ret # NULL
  /\ Len(pools) >= 2
  /\ Owner(last.ret) = pools[1].mesh
  /\ pools[2].available # <<>>
  /\ Len(pools[2].available) < pools[2].size
  /\ last.reissued

(***************************************************************************)
(* What free on h followed by getParticle does from the current state.     *)
(***************************************************************************)
AfterFree(h) == [Heap EXCEPT !.pools = freePoolParticle(pools, Owner(h), h).pools]

FreeThenGet(h) == getOrCreateParticle(AfterFree(h), opts)

WithinReach(h) ==
  LET i == PoolIndex(pools, Owner(h))
  IN /\ i # 0
     /\ ~FLess(opts.maximumParticles, Whole(SlotsBefore(pools, i)))

(***************************************************************************)
(* C5.  Round-trip: in any reachable state and for any particle h in use,  *)
(* free on h followed by getParticle returns h.                            *)
(***************************************************************************)
C5_RoundTrip == \A h \in inUse : FreeThenGet(h).particle = h

(***************************************************************************)
(* C5 as amended: free on h followed by getParticle returns h exactly when *)
(* the available arrays of h's pool and of every pool in front of it were  *)
(* empty before the free and the pools in front of it hold at most         *)
(* maximumParticles slots; otherwise getParticle returns another particle  *)
(* or null.                                                                *)
(***************************************************************************)
C5_RoundTripWhenFirst ==
  \A h \in inUse :
    FreeThenGet(h).particle = h
      <=> /\ WithinReach(h)
          /\ \A j \in 1..PoolIndex(pools, Owner(h)) : pools[j].available = <<>>

C5_Witness ==
  /\ last.op = "getParticle"
  /\ last.reissued
  /\ Len(pools) >= 2
  /\ Owner(last.ret) = pools[2].mesh

(***************************************************************************)
(* C6.  Reuse after exhaustion: in any reachable state in which            *)
(* getParticle returns null, freeing any one particle in use makes the     *)
(* next getParticle return a particle handed out before, and the           *)
(* getParticle after that returns null again.                              *)
(***************************************************************************)
C6_ReuseAfterExhaustion ==
  (WouldReturn.particle = NULL /\ ~WouldReturn.capped) =>
    \A h \in inUse :
      LET first == FreeThenGet(h)
          second == getOrCreateParticle(first.heap, opts)
      IN /\ first.particle # NULL
         /\ first.particle \in returned
         /\ second.particle = NULL

(***************************************************************************)
(* C6 as amended: in such a state, freeing a particle in use whose pool is *)
(* preceded by pools holding at most maximumParticles slots makes the next *)
(* getParticle return that particle and the one after it return null       *)
(* again; freeing a particle of a pool further back leaves getParticle     *)
(* returning null.                                                         *)
(***************************************************************************)
C6_ReuseWithinReach ==
  (WouldReturn.particle = NULL /\ ~WouldReturn.capped) =>
    \A h \in inUse :
      LET first == FreeThenGet(h)
          second == getOrCreateParticle(first.heap, opts)
      IN IF WithinReach(h)
         THEN /\ first.particle = h
              /\ h \in returned
              /\ second.particle = NULL
              /\ ~second.capped
         ELSE first.particle = NULL /\ ~first.capped

C6_Witness ==
  /\ last.op = "getParticle"
  /\ last.reissued
  /\ Cardinality(inUse) >= 2
  /\ WouldReturn.particle = NULL
  /\ ~WouldReturn.capped

(***************************************************************************)
(* C7.  Cleanup keeps exactly one spare: with k the length of the trailing *)
(* run of fully idle pools (available.length = size), a cleanup pass       *)
(* removes exactly the last k - 1 pools when k > 1 and nothing otherwise,  *)
(* detaches exactly the removed meshes from object3d, and keeps the other  *)
(* pools in order with their available arrays; when all n >= 1 pools are   *)
(* idle, 1 pool and 1 attached mesh are left.                              *)
(***************************************************************************)
Idle(pool) == Len(pool.available) = pool.size

TrailingIdle(ps) ==
  CHOOSE k \in 0..Len(ps) :
    /\ \A i \in (Len(ps) - k + 1)..Len(ps) : Idle(ps[i])
    /\ k < Len(ps) => ~Idle(ps[Len(ps) - k])

C7_CleanupKeepsOneSpare ==
  [][(last'.op = "update" /\ last'.cleaned) =>
       LET k == TrailingIdle(pools)
           keep == IF k > 1 THEN Len(pools) - (k - 1) ELSE Len(pools)
       IN /\ pools' = SubSeq(pools, 1, keep)
          /\ items' = SelectSeq(items,
                         LAMBDA m : \E i \in 1..keep : pools[i].mesh = m)
          /\ (Len(pools) >= 1 /\ k = Len(pools))
               => (Len(pools') = 1 /\ Len(items') = 1)
    ]_vars

C7_Witness ==
  /\ last.op = "update"
  /\ last.cleaned
  /\ last.removed = 1
  /\ Len(pools) = 2
  /\ ~Idle(pools[1])
  /\ Idle(pools[2])
  /\ Len(items) = 2

(***************************************************************************)
(* C1.  Uniqueness of live handles: getParticle never returns a particle   *)
(* that is in use, every free having been applied to a particle that       *)
(* getParticle returned earlier.                                           *)
(***************************************************************************)
C1_UniqueLiveHandles ==
  [][(last'.op = "getParticle" /\ last'.ret # NULL) => last'.ret \notin inUse]_vars

(***************************************************************************)
(* C1 as amended: getParticle never returns a particle that is in use,     *)
(* every free having been applied to a particle that was in use (returned  *)
(* by getParticle and not freed since).                                    *)
(***************************************************************************)
C1_UniqueLiveHandlesFreedOnce ==
  [][(misuse = {} /\ last'.op = "getParticle" /\ last'.ret # NULL)
       => last'.ret \notin inUse]_vars

C1_Witness ==
  /\ misuse = {}
  /\ last.op = "getParticle"
  /\ last.reissued
  /\ Cardinality(inUse) >= 2
  /\ Len(pools) >= 2

(***************************************************************************)
(* C8.  No dangling handles: every particle in use belongs to a pool that  *)
(* is still in the pools list, every free having been applied to a         *)
(* particle that getParticle returned earlier.                             *)
(***************************************************************************)
C8_NoDanglingHandles == \A h \in inUse : PoolIndex(pools, Owner(h)) # 0

(***************************************************************************)
(* C8 as amended: the same, every free having been applied to a particle   *)
(* that was in use.                                                        *)
(***************************************************************************)
C8_NoDanglingHandlesFreedOnce ==
  misuse = {} => \A h \in inUse : PoolIndex(pools, Owner(h)) # 0

C8_Witness ==
  /\ misuse = {}
  /\ last.op = "update"
  /\ last.removed >= 1
  /\ inUse # {}

(***************************************************************************)
(* C9.  free rejects a wrong owner: a free function called with a particle *)
(* of another geometry, or with no context, throws, and no available array *)
(* ever holds a particle of another geometry.                              *)
(***************************************************************************)
C9_FreeRejectsWrongOwner ==
  /\ last.op = "freeVia" => last.threw
  /\ \A i \in 1..Len(pools) :
       \A k \in 1..Len(pools[i].available) :
         Owner(pools[i].available[k]) = pools[i].mesh

(***************************************************************************)
(* C11.  Cleanup is interval-gated: update runs cleanUp exactly when the    *)
(* time it reads is more than cleanupInterval past lastCleanup;            *)
(* lastCleanup changes only in an update that runs cleanUp, which sets it  *)
(* to a time not before the one it read, so two passes are more than       *)
(* cleanupInterval apart; the first pass is more than cleanupInterval      *)
(* after construction (time 0); pools are removed only by such an update,  *)
(* and never when cleanupInterval is Infinity.                             *)
(***************************************************************************)
C11_IntervalGated ==
  [][/\ last'.op = "update" =>
          (last'.cleaned
             <=> FLess(opts.cleanupInterval, Whole(last'.at - lastCleanup)))
     /\ lastCleanup' # lastCleanup =>
          /\ last'.op = "update" /\ last'.cleaned
          /\ lastCleanup' >= last'.at
          /\ FLess(opts.cleanupInterval, Whole(last'.at))
     /\ Len(pools') < Len(pools) =>
          /\ last'.op = "update" /\ last'.cleaned
          /\ opts.cleanupInterval # Infinity
    ]_vars

C11_Witness ==
  /\ last.op = "update"
  /\ last.cleaned
  /\ last.removed >= 1
  /\ opts.cleanupInterval = Whole(1)
  /\ last.at = 2
  /\ lastCleanup = 2

(***************************************************************************)
(* C12.  increasePool increases the limit: a call of increasePool with no  *)
(* absoluteCount and a ratio >= 1 (or the default ratio) never leaves      *)
(* maximumParticles lower than it was.                                     *)
(***************************************************************************)
C12_IncreaseNeverLowers ==
  [][(last'.op = "increasePool" /\ ~last'.absolute)
       => ~FLess(opts'.maximumParticles, opts.maximumParticles)]_vars

(***************************************************************************)
(* C13.  decreasePool floor: after a call of decreasePool with no          *)
(* absoluteCount (or absoluteCount 0), maximumParticles is at least        *)
(* particlesPerGeometry and at least minimumParticles; and from every      *)
(* reachable state such a call yields such a value for each of the ratios  *)
(* 1/2, 1, 3/2, 2 and 3 and for the default ratio.                         *)
(***************************************************************************)
AboveFloor(max, o) ==
  /\ ~FLess(max, Whole(o.particlesPerGeometry))
  /\ ~FLess(max, Whole(o.minimumParticles))

FloorRatios == {Frac(1, 2), Frac(1, 1), Frac(3, 2), Frac(2, 1), Frac(3, 1), Zero}

C13_DecreaseFloor ==
  [][/\ (last'.op = "decreasePool" /\ ~last'.absolute)
          => AboveFloor(opts'.maximumParticles, opts')
     /\ \A ratio \in FloorRatios : AboveFloor(decreasePool(opts, ratio, 0), opts)
    ]_vars

C13_Witness ==
  /\ last.op = "decreasePool"
  /\ ~last.absolute
  /\ opts.minimumParticles = 3
  /\ opts.particlesPerGeometry = 2
  /\ opts.maximumParticles = Whole(3)

(***************************************************************************)
(* C14.  getStats is a pure read with consistent totals: it changes        *)
(* neither the pools, their available arrays, the attached meshes,         *)
(* maximumParticles nor lastCleanup; it reports total = pools.length *     *)
(* particlesPerGeometry, used = total - available, the size and the        *)
(* available count of each pool, and used is the number of particles in    *)
(* use (returned by getParticle and not freed since).                      *)
(***************************************************************************)
C14_StatsPureAndConsistent ==
  [][last'.op = "getStats" =>
       /\ UNCHANGED <<opts, pools, items, nextMesh, lastCleanup, now>>
       /\ last'.stats.poolsCount = Len(pools)
       /\ last'.stats.particlesPerPool = opts.particlesPerGeometry
       /\ last'.stats.total = Len(pools) * opts.particlesPerGeometry
       /\ last'.stats.used = last'.stats.total - last'.stats.available
       /\ last'.stats.used = Cardinality(inUse)
       /\ Len(last'.stats.pools) = Len(pools)
       /\ \A i \in 1..Len(pools) :
            /\ last'.stats.pools[i].size = pools[i].size
            /\ last'.stats.pools[i].available = Len(pools[i].available)
    ]_vars

C14_Witness ==
  /\ last.op = "getStats"
  /\ last.stats.poolsCount = 2
  /\ last.stats.total = 4
  /\ last.stats.available = 1
  /\ last.stats.used = 3
  /\ Cardinality(inUse) = 3

(***************************************************************************)
(* C15.  Idle pools are contiguous at the tail: in every state reachable   *)
(* by getParticle, free and update, a fully idle pool is followed only by  *)
(* fully idle pools, so the pools from cleanUp's firstIdlePoolIndex on are *)
(* all the idle pools.                                                     *)
(***************************************************************************)
C15_IdleOnlyAtTail ==
  \A i \in 1..Len(pools) :
    Idle(pools[i]) => \A j \in i..Len(pools) : Idle(pools[j])

(***************************************************************************)
(* C15 as amended: the pools from cleanUp's firstIdlePoolIndex on are      *)
(* fully idle and the pool just before that index, if any, is not, so      *)
(* they are the trailing run of idle pools; idle pools may also lie in     *)
(* front of a pool that is not idle.                                       *)
(***************************************************************************)
C15_IdleFromFirstIdleIndex ==
  LET first == firstIdlePoolIndex(pools, 1, 0)
  IN /\ first \in 0..Len(pools)
     /\ \A j \in (first + 1)..Len(pools) : Idle(pools[j])
     /\ first > 0 => ~Idle(pools[first])
     /\ Len(pools) - first = TrailingIdle(pools)

C15_Witness ==
  /\ last.op = "update"
  /\ last.cleaned
  /\ Len(pools) = 3
  /\ Idle(pools[1])
  /\ ~Idle(pools[2])
  /\ Idle(pools[3])

(***************************************************************************)
(* C16.  Pool creation in getParticle: one call creates at most one pool;  *)
(* it creates one only when every available array is empty and             *)
(* pools.length * particlesPerGeometry < maximumParticles; and when it     *)
(* creates one, the new pool is appended and attached, the pools before it *)
(* are left as they were, and the call returns the first particle of the   *)
(* new pool.                                                               *)
(***************************************************************************)
C16_CreatesOnePoolWhenEmpty ==
  [][last'.op = "getParticle" =>
       /\ Len(pools') \in {Len(pools), Len(pools) + 1}
       /\ Len(pools') = Len(pools) + 1 =>
            /\ NonEmpty(pools) = {}
            /\ FLess(Whole(Capacity), opts.maximumParticles)
            /\ SubSeq(pools', 1, Len(pools)) = pools
            /\ pools'[Len(pools')].mesh = nextMesh
            /\ nextMesh' = nextMesh + 1
            /\ items' = Append(items, nextMesh)
            /\ last'.ret = <<nextMesh, 1>>
            /\ last'.ret \notin returned
    ]_vars

C16_Witness ==
  /\ last.op = "getParticle"
  /\ opts.minimumParticles = 0
  /\ opts.particlesPerGeometry = 1
  /\ Len(pools) = 3
  /\ last.ret = <<pools[3].mesh, 1>>
  /\ nextMesh = pools[3].mesh + 1
  /\ Cardinality(inUse) = 3
  /\ Cardinality(returned) = 3
  /\ ~last.reissued

(***************************************************************************)
(* C17.  Pool invariant: in every reachable state every pool has size      *)
(* particlesPerGeometry, at most size particles in its available array,    *)
(* no particle twice in it, and only particles that its own createGeometry *)
(* call created and that are not in use; every free having been applied to *)
(* a particle that getParticle returned earlier.                           *)
(***************************************************************************)
PoolInvariant(pool) ==
  /\ pool.size = opts.particlesPerGeometry
  /\ Len(pool.available) <= pool.size
  /\ \A j, k \in 1..Len(pool.available) :
       pool.available[j] = pool.available[k] => j = k
  /\ \A k \in 1..Len(pool.available) :
       /\ Owner(pool.available[k]) = pool.mesh
       /\ pool.available[k] \in NewAvailableSet(pool.mesh)
       /\ pool.available[k] \notin inUse

C17_PoolInvariant == \A i \in 1..Len(pools) : PoolInvariant(pools[i])

(***************************************************************************)
(* C17 as amended: the same, every free having been applied to a particle  *)
(* that was in use (returned by getParticle and not freed since).          *)
(***************************************************************************)
C17_PoolInvariantFreedOnce ==
  misuse = {} => \A i \in 1..Len(pools) : PoolInvariant(pools[i])

C17_Witness ==
  /\ misuse = {}
  /\ last.op = "free"
  /\ Len(pools) >= 2
  /\ pools[1].available = <<<<pools[1].mesh, 2>>, <<pools[1].mesh, 1>>>>
  /\ pools[2].available = <<>>
  /\ inUse # {}

(***************************************************************************)
(* C18.  Attachment tracks live pools: in every reachable state the meshes *)
(* attached to object3d are exactly the meshes of the pools in the pools   *)
(* list, each attached once, so object3d.items.length = pools.length.      *)
(***************************************************************************)
C18_AttachedAreLivePools ==
  /\ Len(items) = Len(pools)
  /\ \A i \in 1..Len(pools) : items[i] = pools[i].mesh
  /\ \A i, j \in 1..Len(items) : items[i] = items[j] => i = j

C18_Witness ==
  /\ last.op = "getParticle"
  /\ Len(pools) = 2
  /\ items = <<1, 3>>
  /\ pools[2].mesh = 3
  /\ Owner(last.ret) = 3

(***************************************************************************)
(* C19.  maximumParticles = 0: in a pool constructed with the option       *)
(* maximumParticles: 0, getParticle never creates a pool: the only         *)
(* createGeometry calls ever made are the                                  *)
(* ceil(minimumParticles / particlesPerGeometry) calls of the constructor. *)
(***************************************************************************)
C19_ZeroMaximumCreatesNoPool ==
  nextMesh - 1 = Ceil(opts.minimumParticles, opts.particlesPerGeometry)

(***************************************************************************)
(* C20.  Idle capacity is eventually reclaimed: with a finite              *)
(* cleanupInterval, if from some point on every particle has been freed    *)
(* and getParticle is not called (no particle is in use ever after),       *)
(* while update keeps being called and time keeps advancing, then from     *)
(* some point on the pool holds at most one pool.                          *)
(***************************************************************************)
C20_IdleEventuallyReclaimed ==
  <>[](inUse = {}) => <>[](Len(pools) <= 1)

C20_Witness ==
  /\ last.op = "update"
  /\ last.cleaned
  /\ last.removed = 2
  /\ inUse = {}
  /\ Cardinality(returned) = 3
  /\ Len(pools) = 1

=============================================================================
